---- MODULE Spec2Model ----
(***************************************************************************)
(* A model of the traefik-realip middleware (plugin.go): New builds a      *)
(* Plugin from a Config, ServeHTTP classifies the connection address,      *)
(* writes the trust indicator, resolves the client address from the        *)
(* configured headers and writes it to the destination header before       *)
(* handing the request to the next handler.                                *)
(*                                                                         *)
(* Go strings that the code inspects character by character (header        *)
(* values, RemoteAddr, CIDR blocks) are sequences of one-character         *)
(* strings; header names are atomic strings with a canonicalisation table. *)
(* IP addresses are scaled down: an IPv4 address is one digit (V4Bits      *)
(* bits), an IPv6 address is "::" followed by one digit (V6Bits bits).     *)
(***************************************************************************)
EXTENDS Integers, Sequences, FiniteSets, TLC

VARIABLES
  phase,   \* "init" before New, then "ready" (a handler) or "failed" (an error)
  next,    \* New's next argument: "nil" or "handler"
  cfg,     \* New's cfg argument: <<>> is nil, else <<config>>
  plugin,  \* the handler New returned: <<>> is nil, else <<plugin>>
  err,     \* the error New returned: "" is nil
  slots,   \* per request slot: the request as it arrived and as it was forwarded
  table,   \* a trust table built on its own: the CIDR list and what came back
  probe,   \* the last call of a function on its own: its input and its result
  runs     \* per request slot: a ServeHTTP call in progress, statement by statement

vars == <<phase, next, cfg, plugin, err, slots, table, probe, runs>>

\* ------------------------------------------------------------------ bounds

\* Depths range over -NegDepths .. MaxDepth.
NegDepths == 2
MaxDepth == 1
\* Scaled address widths (32 and 128 in net.IP).
V4Bits == 3
V6Bits == 4
\* processHeaders holds at most MaxSpecs entries.
MaxSpecs == 2
\* The longest token given to cleanIPAddress on its own.
MaxTok == 5
\* The longest CIDR list given to NewIpLookupHelper on its own.
MaxCidrs == 2
\* The width of the machine integer (int of Go, scaled down from 64 bits).
IntBits == 4

\* ----------------------------------------------------------------- strings

Digits == {"0", "1", "2", "3", "4", "5", "6", "7", "8", "9"}

DigitVal(c) ==
  CASE c = "0" -> 0 [] c = "1" -> 1 [] c = "2" -> 2 [] c = "3" -> 3
    [] c = "4" -> 4 [] c = "5" -> 5 [] c = "6" -> 6 [] c = "7" -> 7
    [] c = "8" -> 8 [] c = "9" -> 9

\* The digit that writes a number below ten.
DigitOf(n) == CHOOSE c \in Digits : DigitVal(c) = n

Pow2(n) == IF n <= 0 THEN 1 ELSE 2 ^ n

\* The range of the machine integer, and the value an arithmetic result has
\* in it (Go's integer arithmetic wraps around).
MaxInt == 2 ^ (IntBits - 1) - 1
MinInt == 0 - 2 ^ (IntBits - 1)

Wrap(x) == ((x - MinInt) % (2 ^ IntBits)) + MinInt

\* strings.IndexByte / LastIndexByte, 1-based, 0 when the byte is absent.
IndexByte(s, c) ==
  IF \E i \in 1..Len(s) : s[i] = c
    THEN CHOOSE i \in 1..Len(s) : s[i] = c /\ \A j \in 1..(i - 1) : s[j] # c
    ELSE 0

LastIndexByte(s, c) ==
  IF \E i \in 1..Len(s) : s[i] = c
    THEN CHOOSE i \in 1..Len(s) : s[i] = c /\ \A j \in (i + 1)..Len(s) : s[j] # c
    ELSE 0

\* s[from:] of Go with a 1-based first position.
From(s, from) == SubSeq(s, from, Len(s))

IsSpace(c) == c = " "

\* strings.TrimSpace: the longest slice without leading and trailing space.
TrimSpace(s) ==
  IF \A i \in 1..Len(s) : IsSpace(s[i])
    THEN <<>>
    ELSE SubSeq(s,
                CHOOSE i \in 1..Len(s) :
                  ~IsSpace(s[i]) /\ \A j \in 1..(i - 1) : IsSpace(s[j]),
                CHOOSE i \in 1..Len(s) :
                  ~IsSpace(s[i]) /\ \A j \in (i + 1)..Len(s) : IsSpace(s[j]))

\* strings.Split(s, ","): the pieces between the commas, empty pieces kept.
RECURSIVE Split(_)
SplitAtComma(s, i) ==
  IF i = 0 THEN <<s>>
  ELSE <<SubSeq(s, 1, i - 1)>> \o Split(From(s, i + 1))

Split(s) == SplitAtComma(s, IndexByte(s, ","))

\* net.SplitHostPort: [ok, host]; the port is never used by the plugin.
NoHostPort == [ok |-> FALSE, host |-> <<>>]

\* net.SplitHostPort, the branch of an address that starts with "[": the
\* first "]" (at end) must sit just before the last colon (at i).
SplitBracketed(s, i, end) ==
  IF end = 0 THEN NoHostPort
  ELSE IF end = Len(s) THEN NoHostPort
  ELSE IF end # i - 1 THEN NoHostPort
  ELSE IF IndexByte(From(s, 2), "[") # 0 THEN NoHostPort
  ELSE IF IndexByte(From(s, end + 1), "]") # 0 THEN NoHostPort
  ELSE [ok |-> TRUE, host |-> SubSeq(s, 2, end - 1)]

\* Mutant of SplitPlain: a host that holds colons itself is accepted, so a
\* bare IPv6 address loses what follows its last colon.
M_SplitPlainAnyColons(s, host) ==
  IF IndexByte(s, "[") # 0 THEN NoHostPort
  ELSE IF IndexByte(s, "]") # 0 THEN NoHostPort
  ELSE [ok |-> TRUE, host |-> host]

\* net.SplitHostPort, the other branch: the host is what precedes the last
\* colon and holds no colon itself.
SplitPlain(s, host) ==
  IF IndexByte(host, ":") # 0 THEN NoHostPort
  ELSE IF IndexByte(s, "[") # 0 THEN NoHostPort
  ELSE IF IndexByte(s, "]") # 0 THEN NoHostPort
  ELSE [ok |-> TRUE, host |-> host]

\* net.SplitHostPort from the last colon (at i, 0 when there is none).
SplitAtColon(s, i) ==
  IF i = 0 THEN NoHostPort
  ELSE IF s[1] = "[" THEN SplitBracketed(s, i, IndexByte(s, "]"))
  ELSE SplitPlain(s, SubSeq(s, 1, i - 1))

SplitHostPort(s) == SplitAtColon(s, LastIndexByte(s, ":"))

\* cleanIPAddress, lines 247-253: the host when SplitHostPort succeeds.
HostOrSelf(hp, ip) == IF hp.ok THEN hp.host ELSE ip

\* cleanIPAddress, lines 242-253, on the trimmed string.
CleanTrimmed(ip) == IF ip = <<>> THEN <<>> ELSE HostOrSelf(SplitHostPort(ip), ip)

\* Plugin.cleanIPAddress
cleanIPAddress(ip) == CleanTrimmed(TrimSpace(ip))

\* ------------------------------------------------------------ header names

SyntheticName == "clientAddress"

\* textproto.CanonicalMIMEHeaderKey on the names the model uses: the first
\* letter and every letter after a hyphen upper case, the rest lower case.
Canon(name) ==
  CASE name = "X-Real-IP" -> "X-Real-Ip"
    [] name = "x-real-ip" -> "X-Real-Ip"
    [] name = "CF-Connecting-IP" -> "Cf-Connecting-Ip"
    [] name = "clientAddress" -> "Clientaddress"
    [] OTHER -> name

\* http.Header.Get on a canonical key: the first value stored, or "".
GetKey(h, k) == IF k \in DOMAIN h /\ Len(h[k]) > 0 THEN h[k][1] ELSE <<>>

\* http.Header.Get
Get(h, name) == GetKey(h, Canon(name))

\* http.Header.Set on a canonical key: it holds exactly this one value.
SetKey(h, k, value) ==
  [x \in (DOMAIN h) \cup {k} |-> IF x = k THEN <<value>> ELSE h[x]]

\* http.Header.Set
Set(h, name, value) == SetKey(h, Canon(name), value)

Yes == <<"y", "e", "s">>
No == <<"n", "o">>

\* ------------------------------------------------------------ IP addresses

NilIP == [fam |-> 0, val |-> 0]

\* net.ParseIP on the scaled address syntax: "d" is IPv4, "::d" is IPv6.
ParseIP(s) ==
  IF Len(s) = 1 /\ s[1] \in Digits /\ DigitVal(s[1]) < Pow2(V4Bits)
    THEN [fam |-> 4, val |-> DigitVal(s[1])]
  ELSE IF Len(s) = 3 /\ s[1] = ":" /\ s[2] = ":" /\ s[3] \in Digits
          /\ DigitVal(s[3]) < Pow2(V6Bits)
    THEN [fam |-> 6, val |-> DigitVal(s[3])]
  ELSE NilIP

FamBits(fam) == IF fam = 4 THEN V4Bits ELSE V6Bits

\* The leading len bits of an address of the family.
Prefix(fam, val, len) == val \div Pow2(FamBits(fam) - len)

NoRange == [ok |-> FALSE, fam |-> 0, base |-> 0, len |-> 0]

\* net.ParseCIDR, once the address and the prefix length are parsed: the
\* length must lie within the family's width; the base address is masked.
RangeOf(ip, len) ==
  IF len > FamBits(ip.fam) THEN NoRange
  ELSE [ok |-> TRUE, fam |-> ip.fam, len |-> len,
        base |-> Prefix(ip.fam, ip.val, len) * Pow2(FamBits(ip.fam) - len)]

\* net.ParseCIDR on the address text and the prefix-length text.
ParseRange(ip, l) ==
  IF ip = NilIP THEN NoRange
  ELSE IF ~(Len(l) = 1 /\ l[1] \in Digits) THEN NoRange
  ELSE RangeOf(ip, DigitVal(l[1]))

\* net.ParseCIDR from the slash (at i, 0 when there is none).
ParseAtSlash(s, i) ==
  IF i = 0 THEN NoRange
  ELSE ParseRange(ParseIP(SubSeq(s, 1, i - 1)), From(s, i + 1))

\* net.ParseCIDR: "addr/len" with len within the family's width.
ParseCIDR(s) == ParseAtSlash(s, IndexByte(s, "/"))

NilHelper == [nil |-> TRUE, ranges |-> <<>>]

\* Mutant of HelperOf: the blocks that do not parse are left out.
M_HelperOfValid(ranges) ==
  [err |-> "",
   helper |-> [nil |-> FALSE, ranges |-> SelectSeq(ranges, LAMBDA r : r.ok)]]

\* Mutant of HelperOf: the empty list is refused.
M_HelperOfNonEmpty(ranges) ==
  IF Len(ranges) = 0 \/ \E i \in 1..Len(ranges) : ~ranges[i].ok
    THEN [err |-> "invalid CIDR", helper |-> NilHelper]
    ELSE [err |-> "", helper |-> [nil |-> FALSE, ranges |-> ranges]]

\* NewIpLookupHelper on the parsed blocks: all of them, or an error.
HelperOf(ranges) ==
  IF \E i \in 1..Len(ranges) : ~ranges[i].ok
    THEN [err |-> "invalid CIDR", helper |-> NilHelper]
    ELSE [err |-> "", helper |-> [nil |-> FALSE, ranges |-> ranges]]

\* NewIpLookupHelper: every block must parse; the helper keeps them all.
NewIpLookupHelper(cidrBlocks) ==
  HelperOf([i \in 1..Len(cidrBlocks) |-> ParseCIDR(cidrBlocks[i])])

RangeContains(r, ip) ==
  r.fam = ip.fam /\ Prefix(ip.fam, ip.val, r.len) = Prefix(r.fam, r.base, r.len)

\* Mutant of Longest: the shortest containing prefix is reported.
M_Shortest(lens) ==
  IF lens = {} THEN [found |-> FALSE, prefix |-> 0, err |-> ""]
  ELSE [found |-> TRUE, err |-> "",
        prefix |-> CHOOSE n \in lens : \A m \in lens : n <= m]

\* IsContained, given the prefix lengths of the ranges that contain the
\* address: the longest one.
Longest(lens) ==
  IF lens = {} THEN [found |-> FALSE, prefix |-> 0, err |-> ""]
  ELSE [found |-> TRUE, err |-> "",
        prefix |-> CHOOSE n \in lens : \A m \in lens : m <= n]

\* IpLookupHelper.IsContained: found, and the longest containing prefix.
IsContained(helper, ip) ==
  IF ip = NilIP THEN [found |-> FALSE, prefix |-> 0, err |-> "invalid IP"]
  ELSE Longest({helper.ranges[i].len :
                  i \in {j \in 1..Len(helper.ranges) :
                           RangeContains(helper.ranges[j], ip)}})

\* ------------------------------------------------------------------ plugin

NoHandler(e) == [handler |-> <<>>, err |-> e]

\* Mutant of PluginOf: the error of the trust table construction is dropped
\* and the plugin is built around whatever helper came back.
M_PluginOfIgnoringError(cf, h) ==
  [err |-> "",
   handler |-> <<[enabled |-> cf.Enabled,
                  headerName |-> cf.HeaderName,
                  processHeaders |-> cf.ProcessHeaders,
                  forceOverwrite |-> cf.ForceOverwrite,
                  trustAll |-> cf.TrustAll,
                  trustedIPs |-> h.helper,
                  trustedHeader |-> cf.TrustedHeader]>>]

\* New, lines 88-110: the plugin around the result of the trust table
\* construction.
PluginOf(cf, h) ==
  IF h.err # "" THEN NoHandler("failed to parse trusted IPs")
  ELSE [err |-> "",
        handler |-> <<[enabled |-> cf.Enabled,
                       headerName |-> cf.HeaderName,
                       processHeaders |-> cf.ProcessHeaders,
                       forceOverwrite |-> cf.ForceOverwrite,
                       trustAll |-> cf.TrustAll,
                       trustedIPs |-> h.helper,
                       trustedHeader |-> cf.TrustedHeader]>>]

\* Mutant of NewFrom: the emptiness checks made whether the plugin is
\* enabled or not.
M_NewFromAlwaysValidate(cf) ==
  IF cf.HeaderName = ""
    THEN NoHandler("headerName cannot be empty")
  ELSE IF Len(cf.ProcessHeaders) = 0
    THEN NoHandler("processHeaders cannot be empty")
  ELSE IF ~cf.TrustAll /\ Len(cf.TrustedIPs) = 0
    THEN NoHandler("trustedIPs cannot be empty")
  ELSE IF ~cf.TrustAll /\ Len(cf.TrustedIPs) > 0
    THEN PluginOf(cf, NewIpLookupHelper(cf.TrustedIPs))
  ELSE PluginOf(cf, [err |-> "", helper |-> NilHelper])

\* Mutant of NewFrom: trustAll = false with an empty trustedIPs list is
\* accepted.
M_NewFromNoTrustCheck(cf) ==
  IF cf.Enabled /\ cf.HeaderName = ""
    THEN NoHandler("headerName cannot be empty")
  ELSE IF cf.Enabled /\ Len(cf.ProcessHeaders) = 0
    THEN NoHandler("processHeaders cannot be empty")
  ELSE IF ~cf.TrustAll /\ Len(cf.TrustedIPs) > 0
    THEN PluginOf(cf, NewIpLookupHelper(cf.TrustedIPs))
  ELSE PluginOf(cf, [err |-> "", helper |-> NilHelper])

\* New, lines 74-110, on a non-nil configuration.
NewFrom(cf) ==
  IF cf.Enabled /\ cf.HeaderName = ""
    THEN NoHandler("headerName cannot be empty")
  ELSE IF cf.Enabled /\ Len(cf.ProcessHeaders) = 0
    THEN NoHandler("processHeaders cannot be empty")
  ELSE IF cf.Enabled /\ ~cf.TrustAll /\ Len(cf.TrustedIPs) = 0
    THEN NoHandler("trustedIPs cannot be empty")
  ELSE IF ~cf.TrustAll /\ Len(cf.TrustedIPs) > 0
    THEN PluginOf(cf, NewIpLookupHelper(cf.TrustedIPs))
  ELSE PluginOf(cf, [err |-> "", helper |-> NilHelper])

\* New: the handler (<<>> is nil, else <<plugin>>) and the error ("" is nil).
New(nxt, c) ==
  IF nxt = "nil" THEN NoHandler("no next handler provided")
  ELSE IF c = <<>> THEN NoHandler("no config provided")
  ELSE NewFrom(c[1])

\* isRequestTrusted, lines 168-174: the answer of the trust table.
TrustedBy(res) == IF res.err # "" THEN FALSE ELSE res.found

\* isRequestTrusted, lines 162-174: the parsed address looked up.
TrustedIP(p, ip) ==
  IF ip = NilIP THEN FALSE ELSE TrustedBy(IsContained(p.trustedIPs, ip))

\* isRequestTrusted, lines 156-174: the cleaned RemoteAddr parsed.
TrustedAddr(p, clientIP) ==
  IF clientIP = <<>> THEN FALSE ELSE TrustedIP(p, ParseIP(clientIP))

\* Mutant of isRequestTrusted: RemoteAddr parsed as it is, port included.
M_isRequestTrustedRaw(p, req) ==
  IF p.trustAll THEN TRUE
  ELSE IF p.trustedIPs.nil THEN FALSE
  ELSE TrustedAddr(p, req.RemoteAddr)

\* Mutant of isRequestTrusted: the two early returns in the other order, the
\* missing table tested before trustAll.
M_isRequestTrustedTableFirst(p, req) ==
  IF p.trustedIPs.nil THEN FALSE
  ELSE IF p.trustAll THEN TRUE
  ELSE TrustedAddr(p, cleanIPAddress(req.RemoteAddr))

\* Plugin.isRequestTrusted
isRequestTrusted(p, req) ==
  IF p.trustAll THEN TRUE
  ELSE IF p.trustedIPs.nil THEN FALSE
  ELSE TrustedAddr(p, cleanIPAddress(req.RemoteAddr))

\* Mutant of SkipUntrusted: the nil test of the trust table inverted.
M_SkipUntrusted(p, isTrusted) == ~isTrusted /\ p.trustedIPs.nil

\* extractRealIP, the gate of a non-synthetic entry (line 189).
SkipUntrusted(p, isTrusted) == ~isTrusted /\ ~p.trustedIPs.nil

\* Mutant of KeepNonEmpty: a cleaned token is kept only when it parses as an
\* IP address (the validation the README describes).
M_KeepValidIP(cleanIP) == IF ParseIP(cleanIP) # NilIP THEN <<cleanIP>> ELSE <<>>

\* Mutant of KeepNonEmpty: a token that is empty after cleaning is kept.
M_KeepAll(cleanIP) == <<cleanIP>>

\* extractRealIP, lines 206-208: a cleaned token is kept unless it is empty.
KeepNonEmpty(cleanIP) == IF cleanIP # <<>> THEN <<cleanIP>> ELSE <<>>

\* extractRealIP, the cleaning loop: the non-empty cleaned tokens, in order.
RECURSIVE CleanAll(_)
CleanAll(ips) ==
  IF ips = <<>> THEN <<>>
  ELSE KeepNonEmpty(cleanIPAddress(Head(ips))) \o CleanAll(Tail(ips))

\* Mutant of SelectIndex: a non-negative depth counted from the left.
M_SelectIndexFromLeft(n, depth) ==
  IF depth < 0 THEN 1 ELSE IF depth + 1 <= n THEN depth + 1 ELSE 0

\* Mutant of SelectIndex: a depth beyond the list clamped to the leftmost token.
M_SelectIndexClamped(n, depth) ==
  IF depth < 0 \/ n - 1 - depth < 0 THEN 1 ELSE n - depth

\* Mutant of InBounds: only the upper bound of rightIndex is tested.
M_InBoundsUpperOnly(n, rightIndex) ==
  IF rightIndex < n THEN rightIndex + 1 ELSE 0

\* extractRealIP, lines 222-228: rightIndex as a 1-based index, 0 when it is
\* out of bounds.
InBounds(n, rightIndex) ==
  IF rightIndex >= 0 /\ rightIndex < n THEN rightIndex + 1 ELSE 0

\* extractRealIP, the depth logic: the 1-based index selected among n cleaned
\* tokens, 0 when the depth is out of bounds.
SelectIndex(n, depth) ==
  IF depth < 0 THEN 1 ELSE InBounds(n, Wrap(Wrap(n - 1) - depth))

\* Mutant of RawValue: the synthetic name looked up like any header.
M_RawValue(hc, req) == Get(req.Header, hc.HeaderName)

\* extractRealIP, lines 184-193: where an entry takes its raw value from.
RawValue(hc, req) ==
  IF hc.HeaderName = SyntheticName THEN req.RemoteAddr
  ELSE Get(req.Header, hc.HeaderName)

\* What one round of the loop over processHeaders did (how), the token it
\* selected (ip, empty unless how = "selected") and the header key it read.
Round(how, ip, hc) ==
  [how |-> how, ip |-> ip,
   read |-> IF how = "skipped" \/ hc.HeaderName = SyntheticName THEN {}
            ELSE {Canon(hc.HeaderName)}]

\* extractRealIP, lines 215-233: the selected token, if the index is in
\* bounds; an index expression outside the slice panics.
StepAtIndex(hc, cleanIPs, idx) ==
  IF idx = 0 THEN Round("outOfBounds", <<>>, hc)
  ELSE IF idx \notin 1..Len(cleanIPs) THEN Round("panic", <<>>, hc)
  ELSE Round("selected", cleanIPs[idx], hc)

\* extractRealIP, lines 211-233, on the cleaned tokens.
StepOnTokens(hc, cleanIPs) ==
  IF Len(cleanIPs) = 0 THEN Round("noTokens", <<>>, hc)
  ELSE StepAtIndex(hc, cleanIPs, SelectIndex(Len(cleanIPs), hc.Depth))

\* extractRealIP, lines 195-233, on the raw value of the entry.
StepOnValue(hc, headerValue) ==
  IF headerValue = <<>> THEN Round("empty", <<>>, hc)
  ELSE StepOnTokens(hc, CleanAll(Split(headerValue)))

\* extractRealIP, one round of the loop over processHeaders.
HeaderStep(p, hc, req, isTrusted) ==
  IF hc.HeaderName # SyntheticName /\ SkipUntrusted(p, isTrusted)
    THEN Round("skipped", <<>>, hc)
    ELSE StepOnValue(hc, RawValue(hc, req))

NothingFound == [ip |-> <<>>, visited |-> <<>>, read |-> {}]

\* The walk went past a round that yielded nothing: the result is that of
\* the rest of the walk, with the round's record in front.
After(st, rest) ==
  [ip |-> rest.ip, visited |-> <<st.how>> \o rest.visited,
   read |-> st.read \cup rest.read]

\* Mutant of extractFrom: a later entry that yields a value replaces an
\* earlier one (the walk does not stop at the first match).
PreferLater(st, rest) ==
  [ip |-> IF rest.ip # <<>> THEN rest.ip ELSE st.ip,
   visited |-> <<st.how>> \o rest.visited, read |-> st.read \cup rest.read]

RECURSIVE M_extractFromLast(_, _, _, _)
M_extractFromLast(p, req, isTrusted, i) ==
  IF i > Len(p.processHeaders) THEN NothingFound
  ELSE PreferLater(HeaderStep(p, p.processHeaders[i], req, isTrusted),
                   M_extractFromLast(p, req, isTrusted, i + 1))

\* Plugin.extractRealIP from entry i on: the resolved address (ip), what each
\* visited entry did (visited) and the header keys read (read).
RECURSIVE extractFrom(_, _, _, _)

\* extractRealIP, lines 231-233: return the selected token, or go on.
ReturnOrGoOn(p, req, isTrusted, i, st) ==
  IF st.how = "panic" \/ (st.how = "selected" /\ st.ip # <<>>)
    THEN [ip |-> st.ip, visited |-> <<st.how>>, read |-> st.read]
    ELSE After(st, extractFrom(p, req, isTrusted, i + 1))

extractFrom(p, req, isTrusted, i) ==
  IF i > Len(p.processHeaders) THEN NothingFound
  ELSE ReturnOrGoOn(p, req, isTrusted, i,
                    HeaderStep(p, p.processHeaders[i], req, isTrusted))

extractRealIP(p, req, isTrusted) == extractFrom(p, req, isTrusted, 1)

\* Mutant of SetTrustedHeader: the indicator written for trusted requests only.
M_SetTrustedHeaderYesOnly(p, h, isTrusted) ==
  IF p.trustedHeader # "" /\ isTrusted THEN Set(h, p.trustedHeader, Yes) ELSE h

\* Mutant of SetTrustedHeader: an empty trustedHeader falls back to the
\* name X-Is-Trusted.
M_SetTrustedHeaderDefaultName(p, h, isTrusted) ==
  Set(h, IF p.trustedHeader # "" THEN p.trustedHeader ELSE "X-Is-Trusted",
      IF isTrusted THEN Yes ELSE No)

\* ServeHTTP, lines 124-130: the trust indicator.
SetTrustedHeader(p, h, isTrusted) ==
  IF p.trustedHeader # ""
    THEN Set(h, p.trustedHeader, IF isTrusted THEN Yes ELSE No)
    ELSE h

\* Mutant of SetRealIP: forceOverwrite ignored.
M_SetRealIPNonEmpty(p, h, realIP) ==
  IF realIP # <<>> THEN Set(h, p.headerName, realIP) ELSE h

\* Mutant of SetRealIP: the header written whatever forceOverwrite says.
M_SetRealIPAlways(p, h, realIP) == Set(h, p.headerName, realIP)

\* ServeHTTP, lines 135-139: the destination header.
SetRealIP(p, h, realIP) ==
  IF p.forceOverwrite \/ realIP # <<>> THEN Set(h, p.headerName, realIP) ELSE h

\* What ServeHTTP did with a request: the request as the next handler
\* receives it (out) and what the handler computed on the way.
Served(out, isTrusted, ex, resolved) ==
  [out |-> out, isTrusted |-> isTrusted, realIP |-> ex.ip,
   visited |-> ex.visited, read |-> ex.read, resolved |-> resolved]

\* ServeHTTP, lines 135-141: the destination header written on the request
\* that carries the trust indicator, then the next handler.
ServeResolved(p, req, isTrusted, ex) ==
  Served([req EXCEPT !.Header = SetRealIP(p, req.Header, ex.ip)],
         isTrusted, ex, TRUE)

\* ServeHTTP, lines 132-141: resolution on the request that carries the
\* trust indicator.
ServeMarked(p, req, isTrusted) ==
  ServeResolved(p, req, isTrusted, extractRealIP(p, req, isTrusted))

\* ServeHTTP, lines 123-141, once the request is classified.
ServeClassified(p, req, isTrusted) ==
  ServeMarked(p, [req EXCEPT !.Header = SetTrustedHeader(p, req.Header, isTrusted)],
              isTrusted)

\* Mutant of ServeResult: the enabled flag is not tested.
M_ServeResultIgnoringEnabled(p, req) ==
  ServeClassified(p, req, isRequestTrusted(p, req))

\* Plugin.ServeHTTP on one request.
ServeResult(p, req) ==
  IF ~p.enabled THEN Served(req, FALSE, NothingFound, FALSE)
  ELSE ServeClassified(p, req, isRequestTrusted(p, req))

\* ------------------------------------------------------------------ inputs

Depths == (0 - NegDepths)..MaxDepth

\* The entries of processHeaders: a forwarded-for header and the synthetic
\* source at every depth, the destination header and the trust indicator as
\* sources at depth -1.
HeaderSpecs ==
  [HeaderName : {"X-Forwarded-For", "clientAddress"}, Depth : Depths]
    \cup [HeaderName : {"X-Real-IP", "X-Is-Trusted"}, Depth : {-1}]

\* The entries the lists of two and more entries are made of: each source at
\* its leftmost depth, the two multi-token sources also at the largest depth.
CoreSpecs == {hc \in HeaderSpecs : hc.Depth \in {-1, MaxDepth}}

ProcessHeaderLists ==
  {<<>>} \cup {<<hc>> : hc \in HeaderSpecs}
    \cup UNION {[1..n -> CoreSpecs] : n \in 2..MaxSpecs}

\* CreateConfig: the default configuration.
CreateConfig ==
  [Enabled |-> TRUE, HeaderName |-> "X-Real-IP",
   ProcessHeaders |-> <<[HeaderName |-> "X-Forwarded-For", Depth |-> -1],
                        [HeaderName |-> "X-Real-IP", Depth |-> -1],
                        [HeaderName |-> "CF-Connecting-IP", Depth |-> -1],
                        [HeaderName |-> "clientAddress", Depth |-> -1]>>,
   ForceOverwrite |-> TRUE, TrustAll |-> TRUE, TrustedIPs |-> <<>>,
   TrustedHeader |-> ""]

ValidCIDRs == <<<<"0", "/", "2">>, <<":", ":", "1", "/", "4">>>>
BadCIDRs == <<<<"0", "/", "2">>, <<"x">>>>

AllConfigs ==
  [Enabled : BOOLEAN, HeaderName : {"", "X-Real-IP"},
   ProcessHeaders : ProcessHeaderLists, ForceOverwrite : BOOLEAN,
   TrustAll : BOOLEAN, TrustedIPs : {<<>>, ValidCIDRs, BadCIDRs},
   TrustedHeader : {"", "X-Is-Trusted", "x-real-ip"}]

\* The configurations New is given: the settings that do not reach the
\* resolution walk (a disabled plugin, a malformed CIDR, ranges beside
\* trustAll) come with the lists of at most one entry.
Configs ==
  {c \in AllConfigs :
     (~c.Enabled \/ c.TrustedIPs = BadCIDRs \/ (c.TrustAll /\ c.TrustedIPs # <<>>))
       => Len(c.ProcessHeaders) <= 1}
    \cup {CreateConfig}

\* The configurations of the two-request runs: enabled plugins over the
\* leftmost entries, trust gating on (with ranges) or off (trustAll).
PairSpecs == {hc \in HeaderSpecs : hc.Depth = -1 /\ hc.HeaderName # "X-Is-Trusted"}

PairConfigs ==
  {c \in [Enabled : {TRUE}, HeaderName : {"X-Real-IP"},
          ProcessHeaders : UNION {[1..n -> PairSpecs] : n \in 1..MaxSpecs},
          ForceOverwrite : BOOLEAN, TrustAll : BOOLEAN,
          TrustedIPs : {<<>>, ValidCIDRs},
          TrustedHeader : {"", "X-Is-Trusted", "x-real-ip"}] :
     c.TrustAll <=> c.TrustedIPs = <<>>}
    \cup {CreateConfig}

HeaderKeys == {"X-Forwarded-For", "X-Real-Ip", "X-Is-Trusted", "Clientaddress"}

\* The values a request carries under each key (<<>>: the header is absent).
HeaderValues(k) ==
  CASE k = "X-Forwarded-For" ->
         {<<>>,
          <<<<"6">>, <<"3">>>>,
          <<<<"a", ",", ",", " ", "7", ":", "8", " ", ",", "2">>>>,
          <<<<" ", ",", ":", "8">>>>}
    [] k = "X-Real-Ip" -> {<<>>, <<<<"9">>>>}
    [] k = "X-Is-Trusted" -> {<<>>, <<Yes>>}
    [] k = "Clientaddress" -> {<<>>, <<<<"4">>>>}

HeaderChoices ==
  {f \in [HeaderKeys -> UNION {HeaderValues(k) : k \in HeaderKeys}] :
     /\ \A k \in HeaderKeys : f[k] \in HeaderValues(k)
     /\ f["Clientaddress"] # <<>> =>
          \A k \in HeaderKeys \ {"Clientaddress", "X-Real-Ip"} : f[k] = <<>>}

\* The header map of a request: the keys that carry a value.
HeaderOf(f) == [k \in {x \in DOMAIN f : f[x] # <<>>} |-> f[k]]

\* RemoteAddr: an address inside the first trusted range, one outside it
\* (followed by a second token), the empty string, an IPv6 address inside the
\* second range (after a space), one outside it, and no address at all.
RemoteAddrs ==
  {<<"1", ":", "8">>, <<"5", ":", "8", ",", "1">>, <<>>,
   <<" ", ":", ":", "1">>, <<":", ":", "2">>, <<"x">>}

Requests ==
  {[RemoteAddr |-> ra, Header |-> HeaderOf(f)] :
     ra \in RemoteAddrs, f \in HeaderChoices}

\* The requests of the two-request runs: the forwarded-for header absent or
\* with three tokens, no header named Clientaddress.
PairRequests ==
  {r \in Requests :
     /\ "Clientaddress" \notin DOMAIN r.Header
     /\ "X-Forwarded-For" \in DOMAIN r.Header =>
          Len(r.Header["X-Forwarded-For"]) = 1
            /\ Len(r.Header["X-Forwarded-For"][1]) > 4}

NoRequest == [RemoteAddr |-> <<>>, Header |-> HeaderOf([k \in HeaderKeys |-> <<>>])]

Slots == {1, 2}

\* A slot in which ServeHTTP has not been entered: pc is the statement about
\* to run, req the request as the call holds it, log the statements that ran.
NoRun ==
  [pc |-> "idle", in |-> NoRequest, req |-> NoRequest, isTrusted |-> FALSE,
   realIP |-> <<>>, log |-> <<>>, calls |-> 0, out |-> NoRequest]

IdleSlot ==
  [st |-> "idle", in |-> NoRequest, out |-> NoRequest, isTrusted |-> FALSE,
   realIP |-> <<>>, visited |-> <<>>, read |-> {}, resolved |-> FALSE,
   calls |-> 0]

NoTable == [st |-> "none", cidrs |-> <<>>, helper |-> NilHelper, err |-> ""]

NoProbe == [op |-> "none", in |-> <<>>, out |-> <<>>]

\* The tokens cleanIPAddress is given on its own: every string of at most
\* MaxTok characters among a digit, the colon, the space and the brackets.
TokenChars == {"1", ":", " ", "[", "]"}

Tokens == UNION {[1..n -> TokenChars] : n \in 0..MaxTok}

\* The CIDR strings a trust table is built from: nested IPv4 ranges, IPv6
\* ranges, and strings that are no CIDR (a prefix length one above the IPv4
\* and the IPv6 width, no prefix length, no address, the empty string).
CidrTexts ==
  {<<"0", "/", "2">>, <<"4", "/", "1">>, <<"4", "/", "2">>,
   <<":", ":", "4", "/", "2">>, <<":", ":", "5", "/", "4">>,
   <<"0", "/", DigitOf(V4Bits + 1)>>, <<":", ":", "0", "/", DigitOf(V6Bits + 1)>>,
   <<"4">>, <<"x">>, <<>>}

CidrLists == UNION {[1..n -> CidrTexts] : n \in 0..MaxCidrs}

\* The addresses looked up: in both families, inside one range, inside
\* nested ranges and inside none.
QueryIPs ==
  {<<"1">>, <<"4">>, <<"6">>, <<":", ":", "1">>, <<":", ":", "5">>, <<":", ":", "6">>}

\* ----------------------------------------------------------------- actions

Init ==
  /\ phase = "init"
  /\ next = "nil"
  /\ cfg = <<>>
  /\ plugin = <<>>
  /\ err = ""
  /\ slots = [s \in Slots |-> IdleSlot]
  /\ table = NoTable
  /\ probe = NoProbe
  /\ runs = [s \in Slots |-> NoRun]

\* New(ctx, next, cfg, name)
Returned(r) ==
  /\ plugin' = r.handler
  /\ err' = r.err
  /\ phase' = IF r.err = "" THEN "ready" ELSE "failed"

NewPlugin(n, c) ==
  /\ phase = "init"
  /\ Returned(New(n, c))
  /\ next' = n
  /\ cfg' = c
  /\ UNCHANGED <<slots, table, probe, runs>>

\* The walk ended in a panic: ServeHTTP does not reach the next handler.
Panicked(visited) == \E i \in 1..Len(visited) : visited[i] = "panic"

\* p.ServeHTTP(rw, req) on the request of slot s, up to and including the
\* call of the next handler.
Forwarded(s, req, r) ==
  slots' = [slots EXCEPT ![s] =
              [st |-> "done", in |-> req, out |-> r.out,
               isTrusted |-> r.isTrusted, realIP |-> r.realIP,
               visited |-> r.visited, read |-> r.read,
               resolved |-> r.resolved,
               calls |-> IF Panicked(r.visited) THEN 0 ELSE 1]]

Serve(s, req) ==
  /\ phase = "ready"
  /\ slots[s].st = "idle"
  /\ Forwarded(s, req, ServeResult(plugin[1], req))
  /\ UNCHANGED <<phase, next, cfg, plugin, err, table, probe, runs>>

ConfigArgs == {<<>>} \cup {<<c>> : c \in Configs}

\* Construction: New is called once, with any of its arguments.
Construct ==
  /\ phase = "init"
  /\ \E n \in {"nil", "handler"}, c \in ConfigArgs : NewPlugin(n, c)

\* One request is served by the plugin New returned.
Request ==
  /\ phase = "ready"
  /\ \E req \in Requests : Serve(1, req)

Next == Construct \/ Request

Spec == Init /\ [][Next]_vars

\* Two requests on one plugin, the second from the same connection address
\* as the first: the runs the two-request (non-interference) claims compare.
ConstructPair ==
  /\ phase = "init"
  /\ \E c \in PairConfigs : NewPlugin("handler", <<c>>)

RequestFirst ==
  /\ phase = "ready"
  /\ \E req \in PairRequests : Serve(1, req)

RequestSecond ==
  /\ phase = "ready"
  /\ slots[1].st = "done"
  /\ \E req \in PairRequests :
       req.RemoteAddr = slots[1].in.RemoteAddr /\ Serve(2, req)

NextPair == ConstructPair \/ RequestFirst \/ RequestSecond

SpecPair == Init /\ [][NextPair]_vars

\* cleanIPAddress on its own: one call, on any token.
Cleaned(tok, out) == probe' = [op |-> "clean", in |-> tok, out |-> out]

CleanToken ==
  /\ probe.op = "none"
  /\ \E tok \in Tokens : Cleaned(tok, cleanIPAddress(tok))
  /\ UNCHANGED <<phase, next, cfg, plugin, err, slots, table, runs>>

NextClean == CleanToken

SpecClean == Init /\ [][NextClean]_vars

\* The trust table on its own: NewIpLookupHelper on a CIDR list, then
\* IsContained on the helper it returned, any number of times.
Built(cidrBlocks, r) ==
  table' = [st |-> IF r.err = "" THEN "built" ELSE "failed",
            cidrs |-> cidrBlocks, helper |-> r.helper, err |-> r.err]

BuildTable ==
  /\ table.st = "none"
  /\ \E cidrBlocks \in CidrLists : Built(cidrBlocks, NewIpLookupHelper(cidrBlocks))
  /\ UNCHANGED <<phase, next, cfg, plugin, err, slots, probe, runs>>

LookedUp(ip, res) == probe' = [op |-> "lookup", in |-> ip, out |-> res]

Lookup ==
  /\ table.st = "built"
  /\ \E ip \in QueryIPs : LookedUp(ip, IsContained(table.helper, ParseIP(ip)))
  /\ UNCHANGED <<phase, next, cfg, plugin, err, slots, table, runs>>

NextLookup == BuildTable \/ Lookup

\* The depth logic on its own: one selection, on any number of cleaned
\* tokens and any depth of the machine integer range.
TokenRow(n) == [i \in 1..n |-> [j \in 1..i |-> "1"]]

Selected(n, depth, out) ==
  probe' = [op |-> "depth", in |-> [n |-> n, depth |-> depth], out |-> out]

DepthSelect ==
  /\ probe.op = "none"
  /\ \E n \in 1..MaxInt, depth \in MinInt..MaxInt :
       Selected(n, depth,
                StepOnTokens([HeaderName |-> "X-Forwarded-For", Depth |-> depth],
                             TokenRow(n)))
  /\ UNCHANGED <<phase, next, cfg, plugin, err, slots, table, runs>>

NextDepth == DepthSelect

SpecDepth == Init /\ [][NextDepth]_vars

SpecLookup == Init /\ [][NextLookup]_vars

\* ------------------------------------------------- ServeHTTP, step by step

\* The configurations of the statement-level runs: one disabled plugin, and
\* enabled plugins over a forwarded-for header at the leftmost and at the
\* largest depth, an entry with an empty header name, the trust indicator and
\* the destination header as sources.
StepSpecLists ==
  {<<[HeaderName |-> "X-Forwarded-For", Depth |-> -1]>>,
   <<[HeaderName |-> "X-Forwarded-For", Depth |-> MaxDepth]>>,
   <<[HeaderName |-> "", Depth |-> -1],
     [HeaderName |-> "clientAddress", Depth |-> -1]>>,
   <<[HeaderName |-> "X-Is-Trusted", Depth |-> -1],
     [HeaderName |-> "X-Forwarded-For", Depth |-> -1]>>,
   <<[HeaderName |-> "X-Real-IP", Depth |-> -1]>>}

StepConfigs ==
  {c \in [Enabled : {TRUE}, HeaderName : {"X-Real-IP"},
          ProcessHeaders : StepSpecLists,
          ForceOverwrite : BOOLEAN, TrustAll : BOOLEAN,
          TrustedIPs : {<<>>, ValidCIDRs},
          TrustedHeader : {"", "X-Is-Trusted"}] :
     c.TrustAll <=> c.TrustedIPs = <<>>}
    \cup {[CreateConfig EXCEPT !.Enabled = FALSE],
          [CreateConfig EXCEPT !.TrustedHeader = "x-real-ip"]}

\* The requests of the statement-level runs: no header at all, a forwarded-for
\* header with malformed tokens, a client-sent trust indicator and destination
\* header; from a trusted address and from an unparseable one.
StepHeaders ==
  {HeaderOf([k \in HeaderKeys |-> <<>>]),
   HeaderOf([k \in HeaderKeys |->
      IF k = "X-Forwarded-For"
      THEN <<<<"a", ",", ",", " ", "7", ":", "8", " ", ",", "2">>>>
      ELSE <<>>]),
   HeaderOf([k \in HeaderKeys |->
      CASE k = "X-Is-Trusted" -> <<<<"6">>>>
        [] k = "X-Real-Ip" -> <<<<"9">>>>
        [] OTHER -> <<>>])}

StepRequests(s) ==
  IF s = 1
  THEN [RemoteAddr : {<<"1", ":", "8">>, <<"x">>}, Header : StepHeaders]
  ELSE {r \in [RemoteAddr : {<<"1", ":", "8">>, <<"x">>}, Header : StepHeaders] :
          (r.RemoteAddr = <<"x">>) <=> (DOMAIN r.Header = {"X-Forwarded-For"})}

\* The plugins New returns for these configurations.
StepPlugins == {New("handler", <<c>>).handler[1] : c \in StepConfigs}

\* The requests as a statement of ServeHTTP may hold them: as they arrived,
\* or with a trust indicator written.
StepHeld ==
  StepRequests(1)
    \cup {[r EXCEPT !.Header = Set(@, name, v)] :
           r \in StepRequests(1), name \in {"X-Is-Trusted", "x-real-ip"},
           v \in {Yes, No}}

\* p.extractRealIP(req, isTrusted), a function of its arguments alone,
\* tabulated over the plugins and requests of these runs (@@ <<>> leaves the
\* function as it is and has it computed once, as an explicit table).
Resolutions ==
  [p \in StepPlugins, req \in StepHeld, isTrusted \in BOOLEAN |->
     extractRealIP(p, req, isTrusted)] @@ <<>>

\* p.isRequestTrusted(req), tabulated in the same way.
Classifications ==
  [p \in StepPlugins, req \in StepHeld |-> isRequestTrusted(p, req)] @@ <<>>

\* func (p *Plugin) ServeHTTP(rw, req): the call is entered with req.
Entered(req) == [NoRun EXCEPT !.pc = "check", !.in = req, !.req = req]

\* p.next.ServeHTTP(rw, req), after which ServeHTTP returns.
Called(r) ==
  [r EXCEPT !.calls = @ + 1, !.log = Append(@, "next"), !.out = r.req,
            !.pc = "returned"]

\* if !p.enabled { p.next.ServeHTTP(rw, req); return }
M_AfterCheckNoReturn(p, r) ==
  IF ~p.enabled THEN [Called(r) EXCEPT !.pc = "classify"]
  ELSE [r EXCEPT !.pc = "classify"]

AfterCheck(p, r) ==
  IF ~p.enabled THEN Called(r) ELSE [r EXCEPT !.pc = "classify"]

\* The order of the statements of an enabled plugin: classification, the
\* trust indicator write, resolution, the destination write, the call of next.
M_NextPcResolveFirst(pc) ==
  CASE pc = "classify" -> "resolve"
    [] pc = "resolve" -> "mark"
    [] pc = "mark" -> "write"
    [] pc = "write" -> "forward"

NextPc(pc) ==
  CASE pc = "classify" -> "mark"
    [] pc = "mark" -> "resolve"
    [] pc = "resolve" -> "write"
    [] pc = "write" -> "forward"

\* isTrusted := p.isRequestTrusted(req): a local of the call.
AfterClassify(r, isTrusted) ==
  [r EXCEPT !.isTrusted = isTrusted, !.log = Append(@, "classify"),
            !.pc = NextPc("classify")]

\* The Plugin after a classification: no field is assigned.
M_PluginAfterClassifyCached(p, isTrusted) == [p EXCEPT !.trustAll = isTrusted]

PluginAfterClassify(p, isTrusted) == p

\* if p.trustedHeader != "" { req.Header.Set(p.trustedHeader, "yes" / "no") }
AfterMark(p, r) ==
  [r EXCEPT !.req.Header = SetTrustedHeader(p, @, r.isTrusted),
            !.log = IF p.trustedHeader # "" THEN Append(@, "mark") ELSE @,
            !.pc = NextPc("mark")]

\* realIP := p.extractRealIP(req, isTrusted); an index out of range would
\* end the call in a panic.
AfterResolve(r, ex) ==
  [r EXCEPT !.realIP = ex.ip, !.log = Append(@, "resolve"),
            !.pc = IF Panicked(ex.visited) THEN "panicked"
                   ELSE NextPc("resolve")]

\* if p.forceOverwrite || realIP != "" { req.Header.Set(p.headerName, realIP) }
AfterWrite(p, r) ==
  [r EXCEPT !.req.Header = SetRealIP(p, @, r.realIP),
            !.log = IF p.forceOverwrite \/ r.realIP # <<>>
                    THEN Append(@, "write") ELSE @,
            !.pc = NextPc("write")]

Stepped(s, r) == runs' = [runs EXCEPT ![s] = r]

At(s, pc) == phase = "ready" /\ runs[s].pc = pc

\* A request arrives: the server calls ServeHTTP in a goroutine of its own.
Enter(s) ==
  /\ At(s, "idle")
  /\ \E req \in StepRequests(s) : Stepped(s, Entered(req))
  /\ UNCHANGED <<phase, next, cfg, plugin, err, slots, table, probe>>

Check(s) ==
  /\ At(s, "check")
  /\ Stepped(s, AfterCheck(plugin[1], runs[s]))
  /\ UNCHANGED <<phase, next, cfg, plugin, err, slots, table, probe>>

Classify(s) ==
  /\ At(s, "classify")
  /\ Stepped(s, AfterClassify(runs[s], Classifications[plugin[1], runs[s].req]))
  /\ plugin' = <<PluginAfterClassify(plugin[1],
                                     Classifications[plugin[1], runs[s].req])>>
  /\ UNCHANGED <<phase, next, cfg, err, slots, table, probe>>

Mark(s) ==
  /\ At(s, "mark")
  /\ Stepped(s, AfterMark(plugin[1], runs[s]))
  /\ UNCHANGED <<phase, next, cfg, plugin, err, slots, table, probe>>

Resolve(s) ==
  /\ At(s, "resolve")
  /\ Stepped(s, AfterResolve(runs[s],
                             Resolutions[plugin[1], runs[s].req,
                                         runs[s].isTrusted]))
  /\ UNCHANGED <<phase, next, cfg, plugin, err, slots, table, probe>>

Write(s) ==
  /\ At(s, "write")
  /\ Stepped(s, AfterWrite(plugin[1], runs[s]))
  /\ UNCHANGED <<phase, next, cfg, plugin, err, slots, table, probe>>

Forward(s) ==
  /\ At(s, "forward")
  /\ Stepped(s, Called(runs[s]))
  /\ UNCHANGED <<phase, next, cfg, plugin, err, slots, table, probe>>

ConstructSteps ==
  /\ phase = "init"
  /\ \E c \in StepConfigs : NewPlugin("handler", <<c>>)

\* One statement of the ServeHTTP call in slot s.
Statement(s) ==
  \/ Check(s)
  \/ Classify(s)
  \/ Mark(s)
  \/ Resolve(s)
  \/ Write(s)
  \/ Forward(s)

\* Construction, then up to two ServeHTTP calls on the same plugin, their
\* statements interleaved in any order.
NextSteps ==
  \/ ConstructSteps
  \/ \E s \in Slots : Enter(s)
  \/ \E s \in Slots : Statement(s)

SpecSteps == Init /\ [][NextSteps]_vars

\* Each call runs in a goroutine the scheduler keeps running, and none of its
\* statements waits for anything: a call that can take a statement takes it.
SpecStepsFair ==
  Init /\ [][NextSteps]_vars /\ \A s \in Slots : WF_vars(Statement(s))

\* ------------------------------------------------------------------ claims

Done(s) == slots[s].st = "done"

\* The plugin that serves the requests (defined once New has succeeded).
Plg == plugin[1]

\* Slot s was served by an enabled plugin: ServeHTTP went through trust
\* classification, resolution and the header writes.
Walked(s) == Done(s) /\ slots[s].resolved

\* The request as extractRealIP received it: after the trust indicator write.
SeenBy(s) ==
  [slots[s].in EXCEPT
     !.Header = SetTrustedHeader(Plg, slots[s].in.Header, slots[s].isTrusted)]

\* The values stored under a canonical key, <<>> when the key is absent.
HeaderAt(h, k) == IF k \in DOMAIN h THEN h[k] ELSE <<>>

DestKey == Canon(Plg.headerName)
TrustKey == Canon(Plg.trustedHeader)

\* The destination header as the next handler received it.
DestOut(s) == HeaderAt(slots[s].out.Header, DestKey)

WithoutHeaders(req) == [req EXCEPT !.Header = HeaderOf([k \in HeaderKeys |-> <<>>])]

Min(S) == CHOOSE x \in S : \A y \in S : x <= y

\* C1. Trust gating: with trustAll = false and an untrusted connection,
\* extractRealIP skips every entry that is not the synthetic clientAddress:
\* no header is read, and the resolved address is the one the request would
\* get with all its headers removed.
C1_TrustGating ==
  \A s \in Slots :
    (Walked(s) /\ ~Plg.trustAll /\ ~slots[s].isTrusted) =>
      /\ \A i \in 1..Len(slots[s].visited) :
           Plg.processHeaders[i].HeaderName # "clientAddress"
             => slots[s].visited[i] = "skipped"
      /\ slots[s].read = {}
      /\ slots[s].realIP =
           extractRealIP(Plg, WithoutHeaders(slots[s].in), FALSE).ip

\* An untrusted request carries X-Forwarded-For, the first entry names it and
\* is skipped, and a later synthetic entry resolves the address.
C1_Witness ==
  \E s \in Slots :
    /\ Walked(s) /\ ~Plg.trustAll /\ ~slots[s].isTrusted
    /\ Plg.processHeaders[1].HeaderName = "X-Forwarded-For"
    /\ "X-Forwarded-For" \in DOMAIN slots[s].in.Header
    /\ slots[s].visited[1] = "skipped"
    /\ slots[s].realIP # <<>>

\* C2. Header-spoofing non-interference: with trustAll = false and
\* forceOverwrite = true, two untrusted requests with the same RemoteAddr
\* reach the next handler with the same destination header, whatever their
\* headers are.
C2_SpoofNonInterference ==
  ( /\ Walked(1) /\ Walked(2)
    /\ ~Plg.trustAll /\ Plg.forceOverwrite
    /\ slots[1].in.RemoteAddr = slots[2].in.RemoteAddr
    /\ ~slots[1].isTrusted /\ ~slots[2].isTrusted )
  => DestOut(1) = DestOut(2)

\* Two untrusted requests from one address, one with and one without
\* X-Forwarded-For, under a plugin whose first entry names that header.
C2_Witness ==
  /\ Walked(1) /\ Walked(2)
  /\ ~Plg.trustAll /\ Plg.forceOverwrite
  /\ ~slots[1].isTrusted /\ ~slots[2].isTrusted
  /\ Plg.processHeaders[1].HeaderName = "X-Forwarded-For"
  /\ "X-Forwarded-For" \in DOMAIN slots[1].in.Header
  /\ "X-Forwarded-For" \notin DOMAIN slots[2].in.Header
  /\ HeaderAt(slots[1].in.Header, DestKey) # HeaderAt(slots[2].in.Header, DestKey)
  /\ DestOut(1) = DestOut(2)
  /\ slots[1].realIP # <<>>

\* C3. Synthetic source: an entry named clientAddress takes its raw value
\* from RemoteAddr, trusted or not, and that value is comma-split, cleaned
\* and depth-selected like a header; no header named clientAddress is read.
C3_SyntheticSource ==
  \A s \in Slots :
    Walked(s) =>
      /\ "Clientaddress" \notin slots[s].read
      /\ \A i \in 1..Len(slots[s].visited) :
           Plg.processHeaders[i].HeaderName = "clientAddress" =>
             LET toks == CleanAll(Split(slots[s].in.RemoteAddr))
                 d == Plg.processHeaders[i].Depth
                 pick == IF d < 0 THEN 1 ELSE Len(toks) - d
             IN  /\ slots[s].visited[i] # "skipped"
                 /\ slots[s].visited[i] = "selected" <=> pick \in 1..Len(toks)
                 /\ slots[s].visited[i] = "selected"
                      => slots[s].realIP = toks[pick]

\* An untrusted request that carries a header named Clientaddress is
\* resolved from its RemoteAddr, port stripped, by a synthetic entry.
C3_Witness ==
  \E s \in Slots :
    /\ Walked(s) /\ ~Plg.trustAll /\ ~slots[s].isTrusted
    /\ "Clientaddress" \in DOMAIN slots[s].in.Header
    /\ Plg.processHeaders[Len(slots[s].visited)].HeaderName = "clientAddress"
    /\ slots[s].in.RemoteAddr = <<"5", ":", "8", ",", "1">>
    /\ slots[s].realIP = <<"5">>
    /\ slots[s].realIP # slots[s].in.Header["Clientaddress"][1]

\* C4. First match wins: the resolved address is the token of the first
\* entry, in configured order, that yields a value, whatever later entries
\* would yield; it is empty exactly when no entry yields a value.
C4_FirstMatchWins ==
  \A s \in Slots :
    Walked(s) =>
      LET ph == Plg.processHeaders
          yield(i) == HeaderStep(Plg, ph[i], SeenBy(s), slots[s].isTrusted)
          hits == {i \in 1..Len(ph) : yield(i).how = "selected"}
      IN  IF hits = {} THEN slots[s].realIP = <<>>
          ELSE /\ slots[s].realIP = yield(Min(hits)).ip
               /\ slots[s].realIP # <<>>

\* Two entries that each yield a value, the values differ, and the first
\* one is the result.
C4_Witness ==
  \E s \in Slots :
    /\ Walked(s)
    /\ Len(Plg.processHeaders) = 2
    /\ LET y1 == HeaderStep(Plg, Plg.processHeaders[1], SeenBy(s), slots[s].isTrusted)
           y2 == HeaderStep(Plg, Plg.processHeaders[2], SeenBy(s), slots[s].isTrusted)
       IN  /\ y1.how = "selected" /\ y2.how = "selected"
           /\ y1.ip # y2.ip
           /\ slots[s].realIP = y1.ip

\* The cleaned tokens entry i of the walk of slot s worked on.
TokensOf(s, i) == CleanAll(Split(RawValue(Plg.processHeaders[i], SeenBy(s))))

\* C5. Depth selection: on n >= 1 cleaned tokens every negative depth selects
\* the leftmost token, and a depth d with 0 <= d <= n-1 selects the token at
\* index n-1-d (from 0; 0 is the rightmost).
C5_DepthSelection ==
  \A s \in Slots :
    Walked(s) =>
      \A i \in 1..Len(slots[s].visited) :
        LET toks == TokensOf(s, i)
            n == Len(toks)
            d == Plg.processHeaders[i].Depth
        IN  (slots[s].visited[i] # "skipped" /\ n >= 1) =>
              /\ d < 0 => /\ slots[s].visited[i] = "selected"
                          /\ slots[s].realIP = toks[1]
              /\ (0 <= d /\ d <= n - 1) =>
                   /\ slots[s].visited[i] = "selected"
                   /\ slots[s].realIP = toks[(n - 1 - d) + 1]

\* Three tokens and depth 1: the middle token is the result.
C5_Witness ==
  \E s \in Slots :
    /\ Walked(s)
    /\ Len(slots[s].visited) = 1
    /\ Plg.processHeaders[1].Depth = 1
    /\ Len(TokensOf(s, 1)) = 3
    /\ slots[s].realIP = TokensOf(s, 1)[2]
    /\ TokensOf(s, 1)[2] # TokensOf(s, 1)[1]
    /\ TokensOf(s, 1)[2] # TokensOf(s, 1)[3]

\* C6. Out-of-bounds depth: an entry with depth d >= n on n >= 1 cleaned
\* tokens yields no value and the walk goes on to the next entry; when it is
\* the only entry the resolved address is empty.
C6_DepthOutOfBounds ==
  \A s \in Slots :
    Walked(s) =>
      \A i \in 1..Len(slots[s].visited) :
        LET n == Len(TokensOf(s, i))
            d == Plg.processHeaders[i].Depth
        IN  (slots[s].visited[i] # "skipped" /\ n >= 1 /\ d >= n) =>
              /\ slots[s].visited[i] = "outOfBounds"
              /\ i < Len(Plg.processHeaders) => Len(slots[s].visited) > i
              /\ Len(Plg.processHeaders) = 1 => slots[s].realIP = <<>>

\* The first of two entries is out of bounds and the second one resolves
\* the address.
C6_Witness ==
  \E s \in Slots :
    /\ Walked(s)
    /\ Len(slots[s].visited) = 2
    /\ Len(TokensOf(s, 1)) >= 1
    /\ Plg.processHeaders[1].Depth >= Len(TokensOf(s, 1))
    /\ slots[s].visited = <<"outOfBounds", "selected">>
    /\ slots[s].realIP # <<>>

\* C7. Force-overwrite on: with forceOverwrite = true the next handler
\* receives the destination header present, holding exactly the address
\* extractRealIP resolved, the empty string included, whatever it held on
\* arrival.
C7_ForceOverwriteOn ==
  \A s \in Slots :
    (Walked(s) /\ Plg.forceOverwrite) =>
      /\ DestKey \in DOMAIN slots[s].out.Header
      /\ slots[s].out.Header[DestKey] = <<slots[s].realIP>>
      /\ Get(slots[s].out.Header, Plg.headerName) = slots[s].realIP

\* Nothing was resolved and the client's destination header was replaced by
\* the empty string.
C7_Witness ==
  \E s \in Slots :
    /\ Walked(s) /\ Plg.forceOverwrite
    /\ slots[s].realIP = <<>>
    /\ HeaderAt(slots[s].in.Header, DestKey) = <<<<"9">>>>
    /\ DestOut(s) = <<<<>>>>

\* Two requests that differ at most in the destination header they carry.
SameExceptDest(a, b) ==
  /\ a.RemoteAddr = b.RemoteAddr
  /\ \A k \in ((DOMAIN a.Header) \cup (DOMAIN b.Header)) \ {DestKey} :
       HeaderAt(a.Header, k) = HeaderAt(b.Header, k)

\* Some entry of processHeaders names the destination header as a source.
DestIsSource ==
  \E i \in 1..Len(Plg.processHeaders) :
    /\ Plg.processHeaders[i].HeaderName # "clientAddress"
    /\ Canon(Plg.processHeaders[i].HeaderName) = DestKey

\* C8, as claimed. Anti-spoofing: with forceOverwrite = true the destination
\* header the next handler receives does not depend on the destination header
\* the client sent, for every enabled configuration, CreateConfig's included.
C8_AntiSpoofingAsClaimed ==
  ( /\ Walked(1) /\ Walked(2)
    /\ Plg.forceOverwrite
    /\ SameExceptDest(slots[1].in, slots[2].in) )
  => DestOut(1) = DestOut(2)

\* C8, amended. The same, for the configurations none of whose processHeaders
\* entries names the destination header as a source.
C8_AntiSpoofing ==
  ( /\ Walked(1) /\ Walked(2)
    /\ Plg.forceOverwrite
    /\ ~DestIsSource
    /\ SameExceptDest(slots[1].in, slots[2].in) )
  => DestOut(1) = DestOut(2)

\* One request carries a destination header and the other one does not, the
\* plugin does not read it, and both are forwarded with the same value.
C8_Witness ==
  /\ Walked(1) /\ Walked(2)
  /\ Plg.forceOverwrite
  /\ ~DestIsSource
  /\ SameExceptDest(slots[1].in, slots[2].in)
  /\ HeaderAt(slots[1].in.Header, DestKey) = <<<<"9">>>>
  /\ HeaderAt(slots[2].in.Header, DestKey) = <<>>
  /\ DestOut(1) = DestOut(2)

\* What C9 says of slot s: the destination header is written only with a
\* non-empty resolved address, and is otherwise as it arrived.
DestKeptUnlessResolved(s) ==
  IF slots[s].realIP = <<>>
    THEN /\ DestKey \in DOMAIN slots[s].out.Header
              <=> DestKey \in DOMAIN slots[s].in.Header
         /\ DestOut(s) = HeaderAt(slots[s].in.Header, DestKey)
    ELSE DestOut(s) = <<slots[s].realIP>>

\* C9, as claimed. Force-overwrite off: with forceOverwrite = false the
\* destination header is written only when the resolved address is non-empty
\* and is otherwise left exactly as it arrived.
C9_ForceOverwriteOffAsClaimed ==
  \A s \in Slots :
    (Walked(s) /\ ~Plg.forceOverwrite) => DestKeptUnlessResolved(s)

\* C9, amended. The same, when trustedHeader is empty or names another
\* header than headerName (compared as canonical header keys).
C9_ForceOverwriteOff ==
  \A s \in Slots :
    ( /\ Walked(s) /\ ~Plg.forceOverwrite
      /\ (Plg.trustedHeader = "" \/ TrustKey # DestKey) )
    => DestKeptUnlessResolved(s)

\* Nothing was resolved, a trust indicator was written, and the client's
\* destination header reached the next handler as it came.
C9_Witness ==
  \E s \in Slots :
    /\ Walked(s) /\ ~Plg.forceOverwrite
    /\ Plg.trustedHeader = "X-Is-Trusted"
    /\ slots[s].realIP = <<>>
    /\ HeaderAt(slots[s].in.Header, DestKey) = <<<<"9">>>>
    /\ DestOut(s) = <<<<"9">>>>

\* What C10 says of slot s: the trust indicator header holds exactly "yes"
\* for a trusted connection and exactly "no" otherwise.
TrustIndicated(s) ==
  /\ TrustKey \in DOMAIN slots[s].out.Header
  /\ slots[s].out.Header[TrustKey] = <<IF slots[s].isTrusted THEN Yes ELSE No>>

\* C10, as claimed. Trust indicator: with a non-empty trustedHeader the next
\* handler receives it as "yes" or "no" after the classification, whatever
\* the resolution produced and whatever the other configured names are.
C10_TrustIndicatorAsClaimed ==
  \A s \in Slots :
    (Walked(s) /\ Plg.trustedHeader # "") => TrustIndicated(s)

\* C10, amended. The same, when trustedHeader names another header than
\* headerName (compared as canonical header keys).
C10_TrustIndicator ==
  \A s \in Slots :
    (Walked(s) /\ Plg.trustedHeader # "" /\ TrustKey # DestKey)
      => TrustIndicated(s)

\* An untrusted client sent the indicator as "yes", nothing was resolved, and
\* the next handler receives "no".
C10_Witness ==
  \E s \in Slots :
    /\ Walked(s) /\ Plg.trustedHeader # "" /\ TrustKey # DestKey
    /\ ~slots[s].isTrusted
    /\ slots[s].realIP = <<>>
    /\ HeaderAt(slots[s].in.Header, TrustKey) = <<Yes>>
    /\ slots[s].out.Header[TrustKey] = <<No>>

\* The addresses of a CIDR block, as an interval of its family.
InCidr(ip, cidr) ==
  LET r == ParseCIDR(cidr)
  IN  /\ r.ok
      /\ r.fam = ip.fam
      /\ r.base <= ip.val
      /\ ip.val < r.base + Pow2(FamBits(r.fam) - r.len)

\* The address is a parseable IP inside at least one block of the list.
InSomeCidr(addr, cidrs) ==
  /\ ParseIP(addr) # NilIP
  /\ \E i \in 1..Len(cidrs) : InCidr(ParseIP(addr), cidrs[i])

\* C11. Trust classification: with trustAll = false a request is trusted if
\* and only if its RemoteAddr, trimmed and with the port stripped, parses as
\* an IP address inside at least one configured trustedIPs range; an empty
\* or unparseable address makes the request untrusted, and the request is
\* forwarded all the same.
C11_TrustClassification ==
  \A s \in Slots :
    (Walked(s) /\ ~Plg.trustAll) =>
      /\ slots[s].isTrusted <=>
           InSomeCidr(cleanIPAddress(slots[s].in.RemoteAddr), cfg[1].TrustedIPs)
      /\ slots[s].calls = 1

\* An IPv6 address after a space, inside the second configured range only,
\* is trusted.
C11_Witness ==
  \E s \in Slots :
    /\ Walked(s) /\ ~Plg.trustAll
    /\ slots[s].in.RemoteAddr = <<" ", ":", ":", "1">>
    /\ ~InCidr(ParseIP(<<":", ":", "1">>), cfg[1].TrustedIPs[1])
    /\ slots[s].isTrusted

Count(s, c) == Cardinality({i \in 1..Len(s) : s[i] = c})

NoBracket(s) == Count(s, "[") = 0 /\ Count(s, "]") = 0

\* The contiguous pieces of s, the empty one included.
Slices(s) == {SubSeq(s, a, b) : a \in 1..(Len(s) + 1), b \in 0..Len(s)}

\* t is s without its leading and trailing spaces.
IsTrimOf(t, s) ==
  IF Count(s, " ") = Len(s) THEN t = <<>>
  ELSE \E a \in 1..Len(s), b \in 1..Len(s) :
         /\ a <= b /\ t = SubSeq(s, a, b)
         /\ s[a] # " " /\ s[b] # " "
         /\ \A j \in 1..Len(s) : (j < a \/ j > b) => s[j] = " "

\* t has the form host:port: one colon and no bracket.
IsHostPort(t) == Count(t, ":") = 1 /\ NoBracket(t)

\* t has the form [host]:port with the closing bracket at e: the host holds
\* no bracket, the port neither bracket nor colon.
IsBracketed(t, e) ==
  /\ 1 < e /\ e < Len(t)
  /\ t[1] = "[" /\ t[e] = "]" /\ t[e + 1] = ":"
  /\ NoBracket(SubSeq(t, 2, e - 1))
  /\ NoBracket(From(t, e + 2)) /\ Count(From(t, e + 2), ":") = 0

\* What the claim says cleanIPAddress returns for the trimmed token t.
CleanAsClaimed(t, out) ==
  IF t = <<>> THEN out = <<>>
  ELSE IF IsHostPort(t) THEN out \o <<":">> \o From(t, Len(out) + 2) = t
  ELSE IF \E e \in 1..Len(t) : IsBracketed(t, e)
    THEN \E e \in 1..Len(t) : IsBracketed(t, e) /\ out = SubSeq(t, 2, e - 1)
  ELSE out = t

\* C13. Token cleaning: cleanIPAddress returns the empty string for an empty
\* or all-space input, the host of a trimmed token of the form host:port or
\* [host]:port, and the trimmed token itself in every other case.
C13_TokenCleaning ==
  probe.op = "clean" =>
    \E t \in Slices(probe.in) : IsTrimOf(t, probe.in) /\ CleanAsClaimed(t, probe.out)

\* A bracketed host that holds colons, after a space: the brackets and the
\* port separator are gone, the colons of the host are kept.
C13_Witness ==
  /\ probe.op = "clean"
  /\ probe.in = <<" ", "[", ":", "]", ":">>
  /\ probe.out = <<":">>

NonEmpty(t) == t # <<>>

\* The comma-separated pieces of a raw value, each cleaned, the empty ones
\* left out: valid addresses or not, in their order.
PositionedTokens(raw) ==
  SelectSeq([i \in 1..Len(Split(raw)) |-> cleanIPAddress(Split(raw)[i])], NonEmpty)

\* The token the depth d designates among toks (from 1), 0 when there is none.
Designated(toks, d) ==
  IF d < 0 THEN (IF Len(toks) >= 1 THEN 1 ELSE 0)
  ELSE IF Len(toks) - d \in 1..Len(toks) THEN Len(toks) - d ELSE 0

\* C14. No address validation in resolution: a token that is no valid IP
\* address keeps its position among the tokens depth selection counts, and
\* when the depth designates it, it is the resolved address, unchanged.
C14_NoValidation ==
  \A s \in Slots :
    Walked(s) =>
      \A i \in 1..Len(slots[s].visited) :
        LET toks == PositionedTokens(RawValue(Plg.processHeaders[i], SeenBy(s)))
            pick == Designated(toks, Plg.processHeaders[i].Depth)
        IN  (slots[s].visited[i] # "skipped" /\ pick # 0) =>
              /\ slots[s].visited[i] = "selected"
              /\ slots[s].realIP = toks[pick]

\* "a,, 7:8 ,2" at the leftmost depth resolves to "a", which is no IP
\* address, although valid addresses follow it.
C14_Witness ==
  \E s \in Slots :
    /\ Walked(s)
    /\ Len(slots[s].visited) = 1
    /\ Plg.processHeaders[1] = [HeaderName |-> "X-Forwarded-For", Depth |-> -1]
    /\ PositionedTokens(RawValue(Plg.processHeaders[1], SeenBy(s)))
         = <<<<"a">>, <<"7">>, <<"2">>>>
    /\ ParseIP(<<"a">>) = NilIP
    /\ slots[s].realIP = <<"a">>

\* C15. Invalid IP skipping, as the README and the doc comment of
\* extractRealIP state it: malformed addresses are skipped, so the address
\* extractRealIP returns is the first valid IP address found; whenever it is
\* not empty it parses as an IP address, and a valid token of a header read
\* at the leftmost depth is not passed over for a malformed one before it.
C15_InvalidIPSkipping ==
  \A s \in Slots :
    Walked(s) =>
      /\ slots[s].realIP # <<>> => ParseIP(slots[s].realIP) # NilIP
      /\ \A i \in 1..Len(slots[s].visited) :
           LET toks == PositionedTokens(RawValue(Plg.processHeaders[i], SeenBy(s)))
           IN  ( /\ slots[s].visited[i] = "selected"
                 /\ Plg.processHeaders[i].Depth < 0
                 /\ \E j \in 1..Len(toks) : ParseIP(toks[j]) # NilIP )
               => slots[s].realIP =
                    toks[Min({j \in 1..Len(toks) : ParseIP(toks[j]) # NilIP})]

\* The prefix length a CIDR string ends with.
CidrLen(cidr) == DigitVal(cidr[Len(cidr)])

\* The blocks of the table's CIDR list that contain the address.
Containing(ip) == {i \in 1..Len(table.cidrs) : InCidr(ip, table.cidrs[i])}

\* C16. Most-specific match: IsContained reports found exactly when some
\* range of the address's family contains the address, without an error, and
\* the prefix length it reports is then the largest among the containing
\* ranges.
C16_MostSpecificMatch ==
  probe.op = "lookup" =>
    /\ probe.out.err = ""
    /\ probe.out.found <=> Containing(ParseIP(probe.in)) # {}
    /\ probe.out.found =>
         /\ \E i \in Containing(ParseIP(probe.in)) :
              probe.out.prefix = CidrLen(table.cidrs[i])
         /\ \A i \in Containing(ParseIP(probe.in)) :
              probe.out.prefix >= CidrLen(table.cidrs[i])

\* An address inside two nested ranges, the wider one listed first: the
\* narrower one's prefix length is reported.
C16_Witness ==
  /\ probe.op = "lookup"
  /\ table.cidrs = <<<<"4", "/", "1">>, <<"4", "/", "2">>>>
  /\ probe.in = <<"4">>
  /\ probe.out.found
  /\ probe.out.prefix = 2

\* C17. Empty trust table: NewIpLookupHelper on the empty list succeeds, and
\* IsContained on that helper finds no address of either family and returns
\* no error.
C17_EmptyTable ==
  /\ (table.st # "none" /\ table.cidrs = <<>>) =>
       table.st = "built" /\ table.err = "" /\ ~table.helper.nil
  /\ (probe.op = "lookup" /\ table.cidrs = <<>>) =>
       ~probe.out.found /\ probe.out.err = ""

\* An IPv6 address looked up in the table built from the empty list.
C17_Witness ==
  /\ table.st = "built" /\ table.cidrs = <<>>
  /\ probe.op = "lookup"
  /\ ParseIP(probe.in).fam = 6
  /\ ~probe.out.found

\* A string that is a CIDR: an address of either family, a slash, and a
\* prefix length within the family's width.
IsCidr(s) ==
  \E i \in 2..(Len(s) - 1) :
    /\ s[i] = "/"
    /\ ParseIP(SubSeq(s, 1, i - 1)) # NilIP
    /\ i + 1 = Len(s) /\ s[Len(s)] \in Digits
    /\ DigitVal(s[Len(s)]) <= FamBits(ParseIP(SubSeq(s, 1, i - 1)).fam)

\* C18. All-or-nothing construction: NewIpLookupHelper returns an error and
\* no helper whenever some entry of its input is not a valid CIDR, valid
\* entries beside it or not; a helper it returns holds one range per entry.
C18_AllOrNothing ==
  table.st # "none" =>
    /\ (\E i \in 1..Len(table.cidrs) : ~IsCidr(table.cidrs[i])) =>
         table.st = "failed" /\ table.err # "" /\ table.helper = NilHelper
    /\ table.st = "built" =>
         /\ table.err = ""
         /\ Len(table.helper.ranges) = Len(table.cidrs)
         /\ \A i \in 1..Len(table.cidrs) : IsCidr(table.cidrs[i])

\* A valid range followed by one whose prefix length is one above the IPv4
\* width: construction fails and no helper is returned.
C18_Witness ==
  /\ table.st = "failed"
  /\ Len(table.cidrs) = 2
  /\ table.cidrs[1] = <<"0", "/", "2">>
  /\ table.cidrs[2] = <<"0", "/", DigitOf(V4Bits + 1)>>
  /\ table.helper = NilHelper

\* New has returned.
NewReturned == phase # "init"

\* New returned a nil handler and a non-nil error.
Refused == plugin = <<>> /\ err # ""

\* New returned a handler and a nil error.
Accepted == plugin # <<>> /\ err = ""

\* The trustedIPs list of the configuration holds an entry that is no CIDR.
MalformedCidr ==
  \E i \in 1..Len(cfg[1].TrustedIPs) : ~IsCidr(cfg[1].TrustedIPs[i])

C20_MalformedCidrFatalAsClaimed ==
  (NewReturned /\ cfg # <<>> /\ MalformedCidr) => Refused

\* C20. Malformed CIDR is fatal to initialization when trustAll = false:
\* such a configuration is refused, enabled or not, and a plugin that starts
\* with trustAll = false and a non-empty trustedIPs list holds a table with
\* one range per configured entry. With trustAll = true the list is not
\* parsed and the plugin holds no table.
C20_MalformedCidrFatal ==
  (NewReturned /\ cfg # <<>>) =>
    /\ (MalformedCidr /\ ~cfg[1].TrustAll) => Refused
    /\ (Accepted /\ ~cfg[1].TrustAll /\ Len(cfg[1].TrustedIPs) > 0) =>
         /\ ~Plg.trustedIPs.nil
         /\ Len(Plg.trustedIPs.ranges) = Len(cfg[1].TrustedIPs)
    /\ (Accepted /\ cfg[1].TrustAll) => Plg.trustedIPs.nil

\* An enabled configuration that is complete but for the second entry of its
\* trustedIPs list, which is no CIDR: New refuses it.
C20_Witness ==
  /\ NewReturned /\ cfg # <<>> /\ next = "handler"
  /\ cfg[1].Enabled /\ cfg[1].HeaderName # "" /\ Len(cfg[1].ProcessHeaders) > 0
  /\ ~cfg[1].TrustAll
  /\ Len(cfg[1].TrustedIPs) = 2
  /\ IsCidr(cfg[1].TrustedIPs[1]) /\ ~IsCidr(cfg[1].TrustedIPs[2])
  /\ Refused

\* C21. Disabled pass-through: a plugin built with enabled = false forwards
\* every request with all its headers, headerName and trustedHeader
\* included, and its RemoteAddr exactly as they arrived.
C21_DisabledPassThrough ==
  \A s \in Slots :
    (Done(s) /\ ~Plg.enabled) =>
      /\ slots[s].out = slots[s].in
      /\ slots[s].calls = 1

\* A disabled plugin with forceOverwrite and a trustedHeader forwards a
\* request that carries both headers, untouched.
C21_Witness ==
  \E s \in Slots :
    /\ Done(s) /\ ~Plg.enabled
    /\ Plg.forceOverwrite /\ Plg.headerName = "X-Real-IP"
    /\ Plg.trustedHeader = "X-Is-Trusted"
    /\ HeaderAt(slots[s].in.Header, "X-Real-Ip") = <<<<"9">>>>
    /\ HeaderAt(slots[s].in.Header, "X-Is-Trusted") = <<Yes>>
    /\ slots[s].out = slots[s].in

\* The plugin with the gate of the specification: trust gating is active
\* exactly when trustAll is false, whatever table New built.
GatedAsSpecified ==
  [Plg EXCEPT !.trustedIPs = [nil |-> Plg.trustAll, ranges |-> <<>>]]

\* C24. Gating condition equivalence: for every enabled plugin New returned,
\* "untrusted and the trust table is non-nil" (the code) and "trust gating
\* is active (trustAll = false) and untrusted" (the specification) agree, so
\* every request resolves to the address the specification's walk gives.
C24_GatingEquivalence ==
  (NewReturned /\ Accepted /\ Plg.enabled) =>
    /\ \A b \in BOOLEAN : SkipUntrusted(Plg, b) <=> (~Plg.trustAll /\ ~b)
    /\ \A s \in Slots :
         Walked(s) =>
           slots[s].realIP =
             extractRealIP(GatedAsSpecified, SeenBy(s), slots[s].isTrusted).ip

\* An untrusted request under trustAll = false: the X-Forwarded-For entry is
\* skipped although the request carries the header.
C24_Witness ==
  \E s \in Slots :
    /\ Walked(s) /\ ~Plg.trustAll /\ ~Plg.trustedIPs.nil
    /\ ~slots[s].isTrusted
    /\ Plg.processHeaders[1].HeaderName = "X-Forwarded-For"
    /\ HeaderAt(slots[s].in.Header, "X-Forwarded-For") # <<>>
    /\ slots[s].visited[1] = "skipped"

\* The entries of processHeaders named clientAddress.
SyntheticEntries ==
  {i \in 1..Len(Plg.processHeaders) : Plg.processHeaders[i].HeaderName = "clientAddress"}

\* The first comma-separated token of RemoteAddr, cleaned.
FirstRemoteToken(s) == cleanIPAddress(Head(Split(slots[s].in.RemoteAddr)))

\* C25. Fallback guarantee: with a clientAddress entry of negative depth and
\* a RemoteAddr whose first token cleans to a non-empty string the resolved
\* address is not empty, trusted or not; for an untrusted request under
\* trust gating whose only synthetic entry is that one it is that token.
C25_Fallback ==
  \A s \in Slots :
    (Walked(s) /\ FirstRemoteToken(s) # <<>>) =>
      /\ (\E i \in SyntheticEntries : Plg.processHeaders[i].Depth < 0)
           => slots[s].realIP # <<>>
      /\ ( /\ ~Plg.trustAll /\ ~slots[s].isTrusted
           /\ Cardinality(SyntheticEntries) = 1
           /\ \A i \in SyntheticEntries : Plg.processHeaders[i].Depth < 0 )
         => slots[s].realIP = FirstRemoteToken(s)

\* An untrusted request with a forged X-Forwarded-For resolves to its
\* connection address, port stripped, through the entry after the forged one.
C25_Witness ==
  \E s \in Slots :
    /\ Walked(s) /\ ~Plg.trustAll /\ ~slots[s].isTrusted
    /\ Len(Plg.processHeaders) = 2
    /\ Plg.processHeaders[1].HeaderName = "X-Forwarded-For"
    /\ Plg.processHeaders[2] = [HeaderName |-> "clientAddress", Depth |-> -1]
    /\ HeaderAt(slots[s].in.Header, "X-Forwarded-For") # <<>>
    /\ slots[s].in.RemoteAddr = <<"5", ":", "8", ",", "1">>
    /\ slots[s].realIP = <<"5">>

\* C27. Cleaned sequences hold only non-empty tokens: the tokens an entry
\* selects among are the pieces that are not empty after trimming and port
\* stripping, in their order; the entry yields a value exactly when there
\* is such a token at its selected index, and that value is not empty.
C27_NonEmptyTokens ==
  \A s \in Slots :
    Walked(s) =>
      \A i \in 1..Len(slots[s].visited) :
        LET raw == RawValue(Plg.processHeaders[i], SeenBy(s))
            toks == TokensOf(s, i)
            n == Len(toks)
            d == Plg.processHeaders[i].Depth
            index == IF d < 0 THEN 0 ELSE n - 1 - d
        IN  slots[s].visited[i] # "skipped" =>
              /\ \A j \in 1..n : toks[j] # <<>>
              /\ n = Cardinality({j \in 1..Len(Split(raw)) :
                                    cleanIPAddress(Split(raw)[j]) # <<>>})
              /\ toks = PositionedTokens(raw)
              /\ slots[s].visited[i] = "selected"
                   <=> (raw # <<>> /\ 0 <= index /\ index < n)
              /\ slots[s].visited[i] = "selected"
                   => slots[s].realIP = toks[index + 1] /\ slots[s].realIP # <<>>

\* A header whose two pieces both clean to nothing (a space, and a port
\* without a host) yields no value, and the next entry resolves the address.
C27_Witness ==
  \E s \in Slots :
    /\ Walked(s)
    /\ Len(slots[s].visited) = 2
    /\ RawValue(Plg.processHeaders[1], SeenBy(s)) = <<" ", ",", ":", "8">>
    /\ TokensOf(s, 1) = <<>>
    /\ slots[s].visited = <<"noTokens", "selected">>

\* The header keys ServeHTTP may write.
WrittenKeys ==
  {DestKey} \cup (IF Plg.trustedHeader # "" THEN {TrustKey} ELSE {})

\* C29. Frame of ServeHTTP: an enabled plugin changes at most the headers
\* headerName and, when trustedHeader is not empty, trustedHeader; every
\* other header, the sources named in processHeaders included, and
\* RemoteAddr reach the next handler unchanged, and no header is added.
C29_Frame ==
  \A s \in Slots :
    Walked(s) =>
      /\ slots[s].out.RemoteAddr = slots[s].in.RemoteAddr
      /\ \A k \in ((DOMAIN slots[s].in.Header) \cup (DOMAIN slots[s].out.Header)) :
           k \notin WrittenKeys =>
             HeaderAt(slots[s].out.Header, k) = HeaderAt(slots[s].in.Header, k)

\* A request resolved from an X-Forwarded-For of two field lines by a plugin
\* without trustedHeader: the destination is written, the source header is
\* forwarded as it came and no trust header appears.
C29_Witness ==
  \E s \in Slots :
    /\ Walked(s) /\ Plg.trustedHeader = ""
    /\ Plg.processHeaders[1].HeaderName = "X-Forwarded-For"
    /\ HeaderAt(slots[s].in.Header, "X-Forwarded-For") = <<<<"6">>, <<"3">>>>
    /\ HeaderAt(slots[s].out.Header, "X-Forwarded-For") = <<<<"6">>, <<"3">>>>
    /\ "X-Is-Trusted" \notin DOMAIN slots[s].out.Header
    /\ DestOut(s) = <<<<"6">>>>
    /\ HeaderAt(slots[s].in.Header, DestKey) # DestOut(s)

\* C28. Whitespace removal is complete: whatever its input, cleanIPAddress
\* returns a value without leading or trailing whitespace, also when it
\* stripped a port.
C28_NoSurroundingWhitespace ==
  (probe.op = "clean" /\ probe.out # <<>>) =>
    ~IsSpace(probe.out[1]) /\ ~IsSpace(probe.out[Len(probe.out)])

\* C30. Index safety of depth selection: for every depth of the machine
\* integer range and every number n >= 1 of cleaned tokens, n-1-depth is
\* computed without overflow whenever it is computed (depth >= 0), the
\* sequence is indexed only at an index in [0, n), so the selection never
\* panics: a negative depth selects the leftmost token, a depth below n the
\* token at n-1-depth, and any other depth nothing.
C30_IndexSafety ==
  probe.op = "depth" =>
    LET n == probe.in.n
        d == probe.in.depth
    IN  /\ probe.out.how # "panic"
        /\ d >= 0 => (Wrap(n - 1) = n - 1 /\ Wrap((n - 1) - d) = (n - 1) - d)
        /\ d < 0 => probe.out.how = "selected" /\ probe.out.ip = TokenRow(n)[1]
        /\ (0 <= d /\ d < n) =>
             probe.out.how = "selected" /\ probe.out.ip = TokenRow(n)[n - d]
        /\ d >= n => probe.out.how = "outOfBounds" /\ probe.out.ip = <<>>

\* The largest depth on the longest sequence: nothing is selected and
\* nothing is indexed.
C30_Witness ==
  /\ probe.op = "depth"
  /\ probe.in.n = MaxInt /\ probe.in.depth = MaxInt
  /\ probe.out.how = "outOfBounds"

\* The place of a statement in the source of ServeHTTP.
Rank(e) ==
  CASE e = "classify" -> 1
    [] e = "mark" -> 2
    [] e = "resolve" -> 3
    [] e = "write" -> 4
    [] e = "next" -> 5

InSourceOrder(log) ==
  \A i \in 1..Len(log) : \A j \in 1..Len(log) :
    i < j => Rank(log[i]) < Rank(log[j])

Ran(s, e) == \E i \in 1..Len(runs[s].log) : runs[s].log[i] = e

Indicator(s) == IF runs[s].isTrusted THEN Yes ELSE No

\* The entries of processHeaders that name the trustedHeader.
NamesTrustedHeader(hc) ==
  /\ Plg.trustedHeader # ""
  /\ hc.HeaderName # SyntheticName
  /\ Canon(hc.HeaderName) = TrustKey

\* The call in slot s is about to run the destination write: runs[s].req is
\* the request as resolution read it.
Resolving(s) == phase = "ready" /\ runs[s].pc = "write"

OrderedRun(s) ==
  /\ InSourceOrder(runs[s].log)
  /\ Ran(s, "resolve") =>
       /\ Ran(s, "classify")
       /\ Plg.trustedHeader # "" => Ran(s, "mark")
  /\ Ran(s, "next") =>
       /\ Ran(s, "resolve")
       /\ (Plg.forceOverwrite \/ runs[s].realIP # <<>>) => Ran(s, "write")
  /\ Resolving(s) =>
       /\ runs[s].realIP =
            extractRealIP(Plg, runs[s].req, runs[s].isTrusted).ip
       /\ \A i \in 1..Len(Plg.processHeaders) :
            NamesTrustedHeader(Plg.processHeaders[i]) =>
              RawValue(Plg.processHeaders[i], runs[s].req) = Indicator(s)
       /\ (NamesTrustedHeader(Plg.processHeaders[1]) /\ runs[s].isTrusted) =>
            runs[s].realIP = Yes

Alone(s) == ServeResult(Plg, runs[s].in).out

\* C23. Lock-free concurrent use: no statement of a ServeHTTP call changes
\* the Plugin or its trust table, and under every interleaving of two calls
\* on distinct requests each request reaches the next handler with the
\* headers it has when it is processed alone.
C23_LockFree ==
  /\ [][phase = "ready" => plugin' = plugin]_vars
  /\ [](\A s \in Slots : (phase = "ready" /\ runs[s].pc = "returned") =>
                            runs[s].out = Alone(s))

\* Two calls in flight at once on a plugin with a trust table, one request
\* trusted and between resolution and the destination write, the other
\* untrusted and already forwarded.
C23_Witness ==
  /\ phase = "ready" /\ Plg.enabled /\ ~Plg.trustedIPs.nil
  /\ runs[1].pc = "write" /\ runs[1].isTrusted
  /\ runs[2].pc = "returned" /\ ~runs[2].isTrusted
  /\ runs[1].in # runs[2].in
  /\ runs[2].out = Alone(2)

CallSafe(s) ==
  /\ runs[s].pc # "panicked"
  /\ runs[s].calls <= 1
  /\ runs[s].calls = 1 <=> runs[s].pc = "returned"
  /\ runs[s].pc = "returned" =>
       /\ runs[s].log[Len(runs[s].log)] = "next"
       /\ runs[s].out = runs[s].req

====
